---- MODULE Spec2Model ----
(***************************************************************************)
(* The two example notebooks of the repository, run top to bottom by one   *)
(* kernel:                                                                 *)
(*   "lidar"    docs/examples/building_detection_lidar.ipynb               *)
(*   "instance" the instance segmentation notebook (src/unnamed/part_000)  *)
(* A notebook is a sequence of code cells, a cell a sequence of statements *)
(* (assignments, library calls, prints, one if/else).  The kernel executes *)
(* the statements in order; a library call is in progress from the moment  *)
(* it is made until it returns or raises.  The geoai library itself is not *)
(* part of the notebooks: its effects on the file system and its return    *)
(* values are modelled from the specification's description of it.         *)
(* The LiDAR notebook ends with the IoU / Dice definitions; they are       *)
(* modelled as operators on exact rationals and exercised by SpecMetrics.  *)
(***************************************************************************)
EXTENDS Integers, Sequences, FiniteSets

VARIABLES
    nb,        \* the notebook being run
    pc,        \* index of the code cell being executed
    ip,        \* index of the statement being executed within the cell
    active,    \* the library calls in progress
    finished,  \* number of library calls that have returned or raised
    env,       \* the kernel's global names and their values
    disk,      \* the paths that exist on the file system
    written,   \* the paths written during this run
    log,       \* the library calls made so far, in order
    checked,   \* the paths tested with os.path.exists
    missing,   \* names and files that were read before anything produced them
    stdout,    \* the printed lines
    halted,    \* an exception stopped the run
    mpc,       \* metrics: position in the metric computation
    A,         \* metrics: predicted region (set of pixels)
    B,         \* metrics: ground truth region (set of pixels)
    conf,      \* metrics: the confusion counts TP, FP, FN
    met        \* metrics: the computed metric values

nbvars == <<nb, pc, ip, active, finished, env, disk, written, log, checked,
            missing, stdout, halted>>
mvars == <<mpc, A, B, conf, met>>
vars == <<nb, pc, ip, active, finished, env, disk, written, log, checked,
          missing, stdout, halted, mpc, A, B, conf, met>>

----------------------------------------------------------------------------
(* Bounds of the model.                                                    *)

MaxTiles == 2
MaxRows == 2
MaxSeconds == 2
NumPixels == 4

----------------------------------------------------------------------------
(* Python values, tagged with their type.                                  *)

S(s) == [t |-> "str", v |-> s]
N(n) == [t |-> "int", v |-> n]
B_(b) == [t |-> "bool", v |-> b]
F(num, den) == [t |-> "float", v |-> <<num, den>>]
None == [t |-> "None", v |-> 0]
PathV(s) == [t |-> "Path", v |-> s]
ListV(xs) == [t |-> "list", v |-> xs]
DictV(r) == [t |-> "dict", v |-> r]
TupleV(xs) == [t |-> "tuple", v |-> xs]
GdfV(rows) == [t |-> "gdf", v |-> rows]
ModelV(r) == [t |-> "model", v |-> r]
Unbound == [t |-> "unbound", v |-> "<unbound>"]

----------------------------------------------------------------------------
(* Expressions of the notebooks.                                           *)

Lit(val) == [op |-> "lit", v |-> val]
LS(s) == Lit(S(s))
LN(n) == Lit(N(n))
LB(b) == Lit(B_(b))
LF(num, den) == Lit(F(num, den))
Var(n) == [op |-> "var", n |-> n]
FStr(parts) == [op |-> "fstr", parts |-> parts]
PathOf(x) == [op |-> "Path", x |-> x]
Div(l, r) == [op |-> "div", l |-> l, r |-> r]
Str(x) == [op |-> "str", x |-> x]
ListOf(xs) == [op |-> "list", xs |-> xs]
Dict(items) == [op |-> "dict", items |-> items]
LenOf(x) == [op |-> "len", x |-> x]
FilterGt(x, col, k) == [op |-> "filter_gt", x |-> x, col |-> col, k |-> k]
Exists(x) == [op |-> "exists", x |-> x]
Method(x, name) == [op |-> "method", x |-> x, name |-> name]

RECURSIVE Concat(_)
Concat(ss) == IF ss = <<>> THEN "" ELSE Head(ss) \o Concat(Tail(ss))

Lookup(n) == IF n \in DOMAIN env THEN env[n] ELSE Unbound

RECURSIVE Eval(_)
Eval(e) ==
    CASE e.op = "lit" -> e.v
      [] e.op = "var" -> Lookup(e.n)
      [] e.op = "fstr" ->
            S(Concat([i \in 1..Len(e.parts) |-> Eval(e.parts[i]).v]))
      [] e.op = "Path" -> PathV(Eval(e.x).v)
      [] e.op = "div" -> PathV(Eval(e.l).v \o "/" \o Eval(e.r).v)
      [] e.op = "str" -> S(Eval(e.x).v)
      [] e.op = "list" -> ListV([i \in 1..Len(e.xs) |-> Eval(e.xs[i])])
      [] e.op = "dict" -> DictV([k \in DOMAIN e.items |-> Eval(e.items[k])])
      [] e.op = "len" -> N(Len(Eval(e.x).v))
      [] e.op = "filter_gt" ->
            GdfV(SelectSeq(Eval(e.x).v, LAMBDA row : row[e.col] > e.k))
      [] e.op = "exists" -> B_(Eval(e.x).v \in disk)
      [] e.op = "method" -> [t |-> "opaque", v |-> e.name]

(* The global names an expression reads.                                   *)
RECURSIVE Reads(_)
Reads(e) ==
    CASE e.op = "lit" -> {}
      [] e.op = "var" -> {e.n}
      [] e.op = "fstr" -> UNION {Reads(e.parts[i]) : i \in 1..Len(e.parts)}
      [] e.op = "div" -> Reads(e.l) \cup Reads(e.r)
      [] e.op = "list" -> UNION {Reads(e.xs[i]) : i \in 1..Len(e.xs)}
      [] e.op = "dict" -> UNION {Reads(e.items[k]) : k \in DOMAIN e.items}
      [] OTHER -> Reads(e.x)

(* The paths an expression tests with os.path.exists.                      *)
Probes(e) == IF e.op = "exists" THEN {Eval(e.x).v} ELSE {}

----------------------------------------------------------------------------
(* Statements of the notebooks.                                            *)

Assign(target, x) == [kind |-> "assign", target |-> target, x |-> x]
Call(targets, fn, args) ==
    [kind |-> "call", targets |-> targets, fn |-> fn, args |-> args]
Out(parts) == [kind |-> "print", parts |-> parts]
IfElse(cond, yes, no) == [kind |-> "if", cond |-> cond, yes |-> yes, no |-> no]
ForItems(x, keys, parts) ==
    [kind |-> "for_items", x |-> x, keys |-> keys, parts |-> parts]

----------------------------------------------------------------------------
(* The geoai library and the standard library, as the notebooks use them.  *)

HF == "https://huggingface.co/datasets/giswqs/geospatial/resolve/main/"
RemoteFiles ==
    {"las_vegas_train_naip.tif", "las_vegas_train_hag.tif",
     "las_vegas_buildings_train.geojson", "las_vegas_test_naip.tif",
     "las_vegas_test_hag.tif", "naip_rgb_train.tif",
     "naip_train_buildings.geojson", "naip_test.tif"}
Urls == {HF \o f : f \in RemoteFiles} \cup {"https://titiler.xyz"}

(* download_file saves a URL under its last path component.                *)
Basename(url) ==
    IF \E f \in RemoteFiles : HF \o f = url
    THEN CHOOSE f \in RemoteFiles : HF \o f = url
    ELSE url

IsLocalPath(val) == val.t \in {"str", "Path"} /\ val.v \notin Urls

(* The parameters through which a library function reads local files.      *)
InParams(fn) ==
    CASE fn = "get_raster_info" -> {"arg1"}
      [] fn = "view_vector_interactive" -> {"arg1", "tiles"}
      [] fn = "view_raster" -> {"arg1", "basemap"}
      [] fn = "stack_bands" -> {"input_files"}
      [] fn = "export_geotiff_tiles" -> {"in_raster", "in_class_data"}
      [] fn \in {"train_segmentation_model", "train_instance_segmentation_model"}
            -> {"images_dir", "labels_dir"}
      [] fn = "plot_performance_metrics" -> {"history_path"}
      [] fn \in {"semantic_segmentation", "instance_segmentation"}
            -> {"input_path", "model_path"}
      [] fn = "orthogonalize" -> {"arg1"}
      [] fn = "create_split_map" -> {"left_layer", "right_layer", "basemap"}
      [] OTHER -> {}

FilesOf(val) ==
    IF val.t = "list"
    THEN {val.v[i].v : i \in {j \in 1..Len(val.v) : IsLocalPath(val.v[j])}}
    ELSE IF IsLocalPath(val) THEN {val.v} ELSE {}

(* The local files a call reads.                                           *)
LibInputs(fn, a) == UNION {FilesOf(a[p]) : p \in InParams(fn) \cap DOMAIN a}

(* The paths a call has written when it returns.                           *)
LibOutputs(fn, a) ==
    CASE fn = "download_file" -> {Basename(a.arg1.v)}
      [] fn = "Path.mkdir" -> {a.self.v}
      [] fn = "stack_bands" -> {a.output_file.v}
      [] fn = "export_geotiff_tiles" ->
            {a.out_folder.v \o "/images", a.out_folder.v \o "/labels"}
      [] fn \in {"train_segmentation_model", "train_instance_segmentation_model"}
            -> {a.output_dir.v \o "/best_model.pth",
                a.output_dir.v \o "/training_history.pth"}
      [] fn \in {"semantic_segmentation", "instance_segmentation"}
            -> {a.output_path.v}
      [] fn = "orthogonalize" -> {a.arg2.v}
      [] OTHER -> {}

Areas == {49, 50, 51}
RowSeqs == UNION {[1..n -> Areas] : n \in 0..MaxRows}

(* The values a call can return.                                           *)
LibReturns(fn, a) ==
    CASE fn = "download_file" -> {S(Basename(a.arg1.v))}
      [] fn = "get_device" -> {S("cuda"), S("cpu")}
      [] fn = "export_geotiff_tiles" ->
            {ListV([i \in 1..n |-> N(i)]) : n \in 1..MaxTiles}
      [] fn = "get_instance_segmentation_model" -> {ModelV(a)}
      [] fn = "instance_segmentation" ->
            {TupleV(<<S(a.output_path.v), N(secs)>>) : secs \in 1..MaxSeconds}
      [] fn = "orthogonalize" ->
            {GdfV([i \in DOMAIN rs |-> [geometry |-> rs[i]]]) : rs \in RowSeqs}
      [] fn = "add_geometric_properties" ->
            {GdfV([i \in DOMAIN a.arg1.v |->
                      [k \in {"geometry", "area_" \o a.area_unit.v} |->
                          a.arg1.v[i].geometry]])}
      [] OTHER -> {None}

----------------------------------------------------------------------------
(* The kernel: executing the statements of a cell, in order.               *)

Bind(f, n, val) == [k \in DOMAIN f \cup {n} |-> IF k = n THEN val ELSE f[k]]

(* x = f(...), f(...) alone, and x, y = f(...).                            *)
BindTargets(f, targets, val) ==
    IF Len(targets) = 0 THEN f
    ELSE IF Len(targets) = 1 THEN Bind(f, targets[1], val)
    ELSE Bind(Bind(f, targets[1], val.v[1]), targets[2], val.v[2])

UnboundNames(names) == {<<"name", n>> : n \in names \ DOMAIN env}
UnwrittenFiles(paths) == {<<"file", p>> : p \in paths \ written}

Line(parts) == [i \in 1..Len(parts) |-> Eval(parts[i])]
LineReads(parts) == UNION {Reads(parts[i]) : i \in 1..Len(parts)}
Lines(stmts) == [i \in 1..Len(stmts) |-> Line(stmts[i].parts)]
LinesReads(stmts) == UNION {LineReads(stmts[i].parts) : i \in 1..Len(stmts)}

(* NextCell, were the kernel to skip a cell.                               *)
NextCellSkipping(k) == k + 2

(* The cell that runs after cell k.                                        *)
NextCell(k) == k + 1

(* After the last statement of a cell the kernel moves to the next cell.   *)
Advance(stmts) ==
    IF ip = Len(stmts)
    THEN pc' = NextCell(pc) /\ ip' = 1
    ELSE pc' = pc /\ ip' = ip + 1

ExecAssign(stmts, s) ==
    /\ env' = Bind(env, s.target, Eval(s.x))
    /\ missing' = missing \cup UnboundNames(Reads(s.x))
    /\ checked' = checked \cup Probes(s.x)
    /\ Advance(stmts)
    /\ UNCHANGED <<nb, active, finished, disk, written, log, stdout, halted>>

ExecPrint(stmts, s) ==
    /\ stdout' = Append(stdout, Line(s.parts))
    /\ missing' = missing \cup UnboundNames(LineReads(s.parts))
    /\ Advance(stmts)
    /\ UNCHANGED <<nb, active, finished, env, disk, written, log, checked, halted>>

ExecForItems(stmts, s) ==
    LET d == Eval(s.x).v
    IN  /\ stdout' = stdout \o
               [i \in 1..Len(s.keys) |->
                   Line(s.parts) \o <<S(s.keys[i]), d[s.keys[i]]>>]
        /\ missing' = missing \cup UnboundNames(Reads(s.x) \cup LineReads(s.parts))
        /\ Advance(stmts)
        /\ UNCHANGED <<nb, active, finished, env, disk, written, log, checked, halted>>

(* ExecIf, were a false condition to stop the run instead of printing.     *)
ExecIfAbort(stmts, s) ==
    LET found == Eval(s.cond).v
        branch == IF found THEN s.yes ELSE s.no
    IN  /\ stdout' = stdout \o Lines(branch)
        /\ checked' = checked \cup Probes(s.cond)
        /\ missing' = missing \cup UnboundNames(Reads(s.cond) \cup LinesReads(branch))
        /\ halted' = ~found
        /\ IF found THEN Advance(stmts) ELSE UNCHANGED <<pc, ip>>
        /\ UNCHANGED <<nb, active, finished, env, disk, written, log>>

ExecIf(stmts, s) ==
    LET branch == IF Eval(s.cond).v THEN s.yes ELSE s.no
    IN  /\ stdout' = stdout \o Lines(branch)
        /\ checked' = checked \cup Probes(s.cond)
        /\ missing' = missing \cup UnboundNames(Reads(s.cond) \cup LinesReads(branch))
        /\ Advance(stmts)
        /\ UNCHANGED <<nb, active, finished, env, disk, written, log, halted>>

(* The call is made: its arguments are evaluated and it is in progress.    *)
CallStart(s) ==
    LET a == Eval(s.args).v
        c == [cell |-> pc, fn |-> s.fn, args |-> a]
    IN  /\ active' = active \cup {c}
        /\ log' = Append(log, c)
        /\ missing' = missing \cup UnboundNames(Reads(s.args))
                              \cup UnwrittenFiles(LibInputs(s.fn, a))
        /\ UNCHANGED <<nb, pc, ip, finished, env, disk, written, checked,
                       stdout, halted>>

(* The call in progress returns a value, or raises and stops the run.      *)
CallEnd(stmts, s) ==
    \E c \in active, raises \in BOOLEAN :
        /\ active' = active \ {c}
        /\ finished' = finished + 1
        /\ IF raises
           THEN /\ halted' = TRUE
                /\ UNCHANGED <<pc, ip, env, disk, written>>
           ELSE \E ret \in LibReturns(c.fn, c.args) :
                /\ env' = BindTargets(env, s.targets, ret)
                /\ disk' = disk \cup LibOutputs(c.fn, c.args)
                /\ written' = written \cup LibOutputs(c.fn, c.args)
                /\ Advance(stmts)
                /\ UNCHANGED halted
        /\ UNCHANGED <<nb, log, checked, missing, stdout>>

ExecCall(stmts, s) ==
    IF active = {} THEN CallStart(s) ELSE CallEnd(stmts, s)

Exec(stmts) ==
    LET s == stmts[ip]
    IN  IF s.kind = "assign" THEN ExecAssign(stmts, s)
        ELSE IF s.kind = "print" THEN ExecPrint(stmts, s)
        ELSE IF s.kind = "for_items" THEN ExecForItems(stmts, s)
        ELSE IF s.kind = "if" THEN ExecIf(stmts, s)
        ELSE ExecCall(stmts, s)

(* One step of the kernel inside a cell: the cell's next statement.        *)
Step(stmts) ==
    /\ ~halted
    /\ Exec(stmts)
    /\ UNCHANGED mvars

----------------------------------------------------------------------------
(* docs/examples/building_detection_lidar.ipynb, code cell by code cell.   *)
(* Positional arguments are named arg1, arg2.                              *)

L_Urls ==
    << Assign("train_aerial_url", LS(HF \o "las_vegas_train_naip.tif")),
       Assign("train_LiDAR_url", LS(HF \o "las_vegas_train_hag.tif")),
       Assign("train_building_url", LS(HF \o "las_vegas_buildings_train.geojson")),
       Assign("test_aerial_url", LS(HF \o "las_vegas_test_naip.tif")),
       Assign("test_LiDAR_url", LS(HF \o "las_vegas_test_hag.tif")) >>

L_Download ==
    << Call(<<"train_aerial_path">>, "download_file",
            Dict([arg1 |-> Var("train_aerial_url")])),
       Call(<<"train_LiDAR_path">>, "download_file",
            Dict([arg1 |-> Var("train_LiDAR_url")])),
       Call(<<"train_building_path">>, "download_file",
            Dict([arg1 |-> Var("train_building_url")])),
       Call(<<"test_aerial_path">>, "download_file",
            Dict([arg1 |-> Var("test_aerial_url")])),
       Call(<<"test_LiDAR_path">>, "download_file",
            Dict([arg1 |-> Var("test_LiDAR_url")])) >>

L_Environ ==
    << Assign("os.environ[TITILER_ENDPOINT]", LS("https://titiler.xyz")) >>

L_ViewTrainAerial ==
    << Call(<<>>, "view_vector_interactive",
            Dict([arg1 |-> Var("train_building_path"),
                  tiles |-> Var("train_aerial_url")])) >>

L_ViewTrainLiDAR ==
    << Call(<<>>, "view_vector_interactive",
            Dict([arg1 |-> Var("train_building_path"),
                  tiles |-> Var("train_LiDAR_url")])) >>

L_StackTrain ==
    << Assign("train_raster_path", LS("las_vegas_train_naip_hag.tif")),
       Call(<<>>, "stack_bands",
            Dict([input_files |-> ListOf(<<Var("train_aerial_path"),
                                           Var("train_LiDAR_path")>>),
                  output_file |-> Var("train_raster_path"),
                  resolution |-> Lit(None),
                  overwrite |-> LB(TRUE),
                  dtype |-> LS("Byte")])) >>

(* L_StackTest, were the LiDAR raster stacked before the aerial image.     *)
L_StackTestLiDARFirst ==
    << Assign("test_raster_path", LS("las_vegas_test_naip_hag.tif")),
       Call(<<>>, "stack_bands",
            Dict([input_files |-> ListOf(<<Var("test_LiDAR_path"),
                                           Var("test_aerial_path")>>),
                  output_file |-> Var("test_raster_path"),
                  resolution |-> Lit(None),
                  overwrite |-> LB(TRUE),
                  dtype |-> LS("Byte")])) >>

L_StackTest ==
    << Assign("test_raster_path", LS("las_vegas_test_naip_hag.tif")),
       Call(<<>>, "stack_bands",
            Dict([input_files |-> ListOf(<<Var("test_aerial_path"),
                                           Var("test_LiDAR_path")>>),
                  output_file |-> Var("test_raster_path"),
                  resolution |-> Lit(None),
                  overwrite |-> LB(TRUE),
                  dtype |-> LS("Byte")])) >>

L_Export ==
    << Assign("out_folder", LS("buildings")),
       Call(<<"tiles">>, "export_geotiff_tiles",
            Dict([in_raster |-> Var("train_raster_path"),
                  out_folder |-> Var("out_folder"),
                  in_class_data |-> Var("train_building_path"),
                  tile_size |-> LN(512),
                  stride |-> LN(256),
                  buffer_radius |-> LN(0)])) >>

(* L_Train, were the label tiles read from a directory named masks.        *)
L_TrainOnMasks ==
    << Call(<<>>, "train_segmentation_model",
            Dict([images_dir |-> FStr(<<Var("out_folder"), LS("/images")>>),
                  labels_dir |-> FStr(<<Var("out_folder"), LS("/masks")>>),
                  output_dir |-> FStr(<<Var("out_folder"), LS("/unet_models")>>),
                  architecture |-> LS("unet"),
                  encoder_name |-> LS("resnet34"),
                  encoder_weights |-> LS("imagenet"),
                  num_channels |-> LN(5),
                  num_classes |-> LN(2),
                  batch_size |-> LN(8),
                  num_epochs |-> LN(50),
                  learning_rate |-> LF(1, 1000),
                  val_split |-> LF(2, 10),
                  verbose |-> LB(TRUE)])) >>

L_Train ==
    << Call(<<>>, "train_segmentation_model",
            Dict([images_dir |-> FStr(<<Var("out_folder"), LS("/images")>>),
                  labels_dir |-> FStr(<<Var("out_folder"), LS("/labels")>>),
                  output_dir |-> FStr(<<Var("out_folder"), LS("/unet_models")>>),
                  architecture |-> LS("unet"),
                  encoder_name |-> LS("resnet34"),
                  encoder_weights |-> LS("imagenet"),
                  num_channels |-> LN(5),
                  num_classes |-> LN(2),
                  batch_size |-> LN(8),
                  num_epochs |-> LN(50),
                  learning_rate |-> LF(1, 1000),
                  val_split |-> LF(2, 10),
                  verbose |-> LB(TRUE)])) >>

L_Plot ==
    << Call(<<>>, "plot_performance_metrics",
            Dict([history_path |->
                      FStr(<<Var("out_folder"),
                             LS("/unet_models/training_history.pth")>>),
                  figsize |-> Lit(TupleV(<<N(15), N(5)>>)),
                  verbose |-> LB(TRUE)])) >>

L_DefinePaths ==
    << Assign("masks_path", LS("building_masks.tif")),
       Assign("model_path",
              FStr(<<Var("out_folder"), LS("/unet_models/best_model.pth")>>)) >>

L_Inference ==
    << Call(<<>>, "semantic_segmentation",
            Dict([input_path |-> Var("test_raster_path"),
                  output_path |-> Var("masks_path"),
                  model_path |-> Var("model_path"),
                  architecture |-> LS("unet"),
                  encoder_name |-> LS("resnet34"),
                  num_channels |-> LN(5),
                  num_classes |-> LN(2),
                  window_size |-> LN(512),
                  overlap |-> LN(256),
                  batch_size |-> LN(8)])) >>

(* L_Orthogonalize, were it given the other notebook's output_path.        *)
L_OrthogonalizeUnbound ==
    << Assign("output_vector_path", LS("building_masks.geojson")),
       Call(<<"gdf">>, "orthogonalize",
            Dict([arg1 |-> Var("output_path"),
                  arg2 |-> Var("output_vector_path"),
                  epsilon |-> LN(2)])) >>

L_Orthogonalize ==
    << Assign("output_vector_path", LS("building_masks.geojson")),
       Call(<<"gdf">>, "orthogonalize",
            Dict([arg1 |-> Var("masks_path"),
                  arg2 |-> Var("output_vector_path"),
                  epsilon |-> LN(2)])) >>

L_AddProps ==
    << Call(<<"gdf_props">>, "add_geometric_properties",
            Dict([arg1 |-> Var("gdf"),
                  area_unit |-> LS("m2"),
                  length_unit |-> LS("m")])),
       Out(<<LS("Number of buildings: "), LenOf(Var("gdf_props"))>>) >>

(* L_ViewRaster, were the stacked test raster viewed instead of the masks. *)
L_ViewRasterOfInput ==
    << Call(<<>>, "view_raster",
            Dict([arg1 |-> Var("test_raster_path"),
                  nodata |-> LN(0),
                  basemap |-> Var("test_aerial_url"),
                  backend |-> LS("ipyleaflet")])) >>

L_ViewRaster ==
    << Call(<<>>, "view_raster",
            Dict([arg1 |-> Var("masks_path"),
                  nodata |-> LN(0),
                  basemap |-> Var("test_aerial_url"),
                  backend |-> LS("ipyleaflet")])) >>

L_ViewProps ==
    << Call(<<>>, "view_vector_interactive",
            Dict([arg1 |-> Var("gdf_props"),
                  column |-> LS("area_m2"),
                  tiles |-> Var("test_aerial_url")])) >>

L_Filter ==
    << Assign("gdf_filtered", FilterGt(Var("gdf_props"), "area_m2", 50)),
       Out(<<LS("Number of buildings: "), LenOf(Var("gdf_filtered"))>>) >>

L_ViewFiltered ==
    << Call(<<>>, "view_vector_interactive",
            Dict([arg1 |-> Var("gdf_filtered"),
                  column |-> LS("area_m2"),
                  tiles |-> Var("test_aerial_url")])) >>

L_SplitMap ==
    << Call(<<>>, "create_split_map",
            Dict([left_layer |-> Var("gdf_filtered"),
                  right_layer |-> Var("test_aerial_url"),
                  left_args |->
                      Dict([style |-> Dict([color |-> LS("red"),
                                            fillOpacity |-> LF(2, 10)])]),
                  basemap |-> Var("test_aerial_url")])) >>

LidarCells ==
    << L_Urls, L_Download, L_Environ, L_ViewTrainAerial, L_ViewTrainLiDAR,
       L_StackTrain, L_StackTest, L_Export, L_Train, L_Plot, L_DefinePaths,
       L_Inference, L_Orthogonalize, L_AddProps, L_ViewRaster, L_ViewProps,
       L_Filter, L_ViewFiltered, L_SplitMap >>

----------------------------------------------------------------------------
(* The instance segmentation notebook, code cell by code cell.             *)

I_Setup ==
    << Call(<<"device">>, "get_device", Dict(<<>>)),
       Out(<<LS("Using device: "), Var("device")>>),
       Assign("out_folder", LS("instance_segmentation_buildings")),
       Assign("models_dir", Div(PathOf(Var("out_folder")), LS("models"))),
       Assign("output_dir", Div(PathOf(Var("out_folder")), LS("output"))),
       Call(<<>>, "Path.mkdir",
            Dict([self |-> Var("models_dir"),
                  parents |-> LB(TRUE), exist_ok |-> LB(TRUE)])),
       Call(<<>>, "Path.mkdir",
            Dict([self |-> Var("output_dir"),
                  parents |-> LB(TRUE), exist_ok |-> LB(TRUE)])),
       Out(<<LS("Working directory: "), Var("out_folder")>>),
       Out(<<LS("Models will be saved to: "), Var("models_dir")>>),
       Out(<<LS("Output will be saved to: "), Var("output_dir")>>) >>

I_Urls ==
    << Assign("train_raster_url", LS(HF \o "naip_rgb_train.tif")),
       Assign("train_vector_url", LS(HF \o "naip_train_buildings.geojson")),
       Assign("test_raster_url", LS(HF \o "naip_test.tif")) >>

I_Download ==
    << Call(<<"train_raster_path">>, "download_file",
            Dict([arg1 |-> Var("train_raster_url")])),
       Call(<<"train_vector_path">>, "download_file",
            Dict([arg1 |-> Var("train_vector_url")])),
       Call(<<"test_raster_path">>, "download_file",
            Dict([arg1 |-> Var("test_raster_url")])),
       Out(<<LS("Downloaded training raster: "), Var("train_raster_path")>>),
       Out(<<LS("Downloaded training vector: "), Var("train_vector_path")>>),
       Out(<<LS("Downloaded test raster: "), Var("test_raster_path")>>) >>

I_RasterInfo ==
    << Call(<<>>, "get_raster_info", Dict([arg1 |-> Var("train_raster_path")])) >>

I_ViewTrain ==
    << Call(<<>>, "view_vector_interactive",
            Dict([arg1 |-> Var("train_vector_path"),
                  tiles |-> Var("train_raster_url")])) >>

I_ViewTest ==
    << Call(<<>>, "view_raster", Dict([arg1 |-> Var("test_raster_url")])) >>

I_Export ==
    << Call(<<"tiles">>, "export_geotiff_tiles",
            Dict([in_raster |-> Var("train_raster_path"),
                  out_folder |-> Var("out_folder"),
                  in_class_data |-> Var("train_vector_path"),
                  tile_size |-> LN(512),
                  stride |-> LN(256),
                  buffer_radius |-> LN(0)])),
       Out(<<LS("Created "), LenOf(Var("tiles")), LS(" training tiles")>>),
       Out(<<LS("Images saved to: "), FStr(<<Var("out_folder"), LS("/images")>>)>>),
       Out(<<LS("Labels saved to: "), FStr(<<Var("out_folder"), LS("/labels")>>)>>) >>

I_CreateModel ==
    << Call(<<"model">>, "get_instance_segmentation_model",
            Dict([num_classes |-> LN(2),
                  num_channels |-> LN(3),
                  pretrained |-> LB(TRUE)])),
       Out(<<LS("Model created with "), Method(Var("model"), "parameters"),
             LS(" parameters")>>),
       Out(<<LS("Model device: "), Method(Var("model"), "parameters.device")>>),
       Out(<<LS("Model type: "), Method(Var("model"), "type")>>) >>

I_TrainingConfig ==
    << Assign("training_config",
              Dict([images_dir |-> FStr(<<Var("out_folder"), LS("/images")>>),
                    labels_dir |-> FStr(<<Var("out_folder"), LS("/labels")>>),
                    output_dir |-> Str(Var("models_dir")),
                    num_classes |-> LN(2),
                    num_channels |-> LN(3),
                    batch_size |-> LN(2),
                    num_epochs |-> LN(20),
                    learning_rate |-> LF(5, 1000),
                    val_split |-> LF(2, 10),
                    visualize |-> LB(TRUE),
                    device |-> Var("device"),
                    verbose |-> LB(TRUE)])),
       Out(<<LS("Training configuration:")>>),
       ForItems(Var("training_config"),
                <<"images_dir", "labels_dir", "output_dir", "num_classes",
                  "num_channels", "batch_size", "num_epochs", "learning_rate",
                  "val_split", "visualize", "device", "verbose">>,
                <<LS("  ")>>) >>

I_Train ==
    << Out(<<LS("Starting training...")>>),
       Call(<<>>, "train_instance_segmentation_model", Var("training_config")),
       Out(<<LS("Training completed!")>>) >>

(* I_Plot, were the history looked up under output_dir, not models_dir.    *)
I_PlotFromOutputDir ==
    << Call(<<>>, "plot_performance_metrics",
            Dict([history_path |->
                      Str(Div(Var("output_dir"), LS("training_history.pth"))),
                  figsize |-> Lit(TupleV(<<N(15), N(5)>>)),
                  verbose |-> LB(TRUE)])) >>

I_Plot ==
    << Call(<<>>, "plot_performance_metrics",
            Dict([history_path |->
                      Str(Div(Var("models_dir"), LS("training_history.pth"))),
                  figsize |-> Lit(TupleV(<<N(15), N(5)>>)),
                  verbose |-> LB(TRUE)])) >>

(* I_DefinePaths, without the existence check.                             *)
I_DefinePathsUnchecked ==
    << Assign("model_path", Str(Div(Var("models_dir"), LS("best_model.pth")))),
       Assign("output_path",
              Str(Div(Var("output_dir"), LS("instance_segmentation_result.tif")))) >>

I_DefinePaths ==
    << Assign("model_path", Str(Div(Var("models_dir"), LS("best_model.pth")))),
       Assign("output_path",
              Str(Div(Var("output_dir"), LS("instance_segmentation_result.tif")))),
       IfElse(Exists(Var("model_path")),
              << Out(<<LS("Model found at: "), Var("model_path")>>) >>,
              << Out(<<LS("Model not found at: "), Var("model_path")>>),
                 Out(<<LS("Please ensure training completed successfully")>>) >>) >>

(* I_Inference, were the model built for four channels at inference.       *)
I_InferenceFourChannels ==
    << Assign("inference_config",
              Dict([input_path |-> Var("test_raster_path"),
                    output_path |-> Var("output_path"),
                    model_path |-> Var("model_path"),
                    window_size |-> LN(512),
                    overlap |-> LN(128),
                    confidence_threshold |-> LF(5, 10),
                    batch_size |-> LN(2),
                    num_channels |-> LN(4),
                    num_classes |-> LN(2),
                    device |-> Var("device")])),
       Out(<<LS("Running inference with sliding window processing...")>>),
       Call(<<"result_path", "inference_time">>, "instance_segmentation",
            Var("inference_config")),
       Out(<<LS("Inference completed in "), Var("inference_time"),
             LS(" seconds!")>>) >>

I_Inference ==
    << Assign("inference_config",
              Dict([input_path |-> Var("test_raster_path"),
                    output_path |-> Var("output_path"),
                    model_path |-> Var("model_path"),
                    window_size |-> LN(512),
                    overlap |-> LN(128),
                    confidence_threshold |-> LF(5, 10),
                    batch_size |-> LN(2),
                    num_channels |-> LN(3),
                    num_classes |-> LN(2),
                    device |-> Var("device")])),
       Out(<<LS("Running inference with sliding window processing...")>>),
       Call(<<"result_path", "inference_time">>, "instance_segmentation",
            Var("inference_config")),
       Out(<<LS("Inference completed in "), Var("inference_time"),
             LS(" seconds!")>>) >>

I_ViewRaster ==
    << Call(<<>>, "view_raster",
            Dict([arg1 |-> Var("output_path"),
                  nodata |-> LN(0),
                  colormap |-> LS("tab20"),
                  opacity |-> LF(7, 10),
                  basemap |-> Var("test_raster_url")])) >>

I_Orthogonalize ==
    << Assign("output_vector_path", LS("building_predictions.geojson")),
       Call(<<"gdf">>, "orthogonalize",
            Dict([arg1 |-> Var("output_path"),
                  arg2 |-> Var("output_vector_path"),
                  epsilon |-> LN(2)])) >>

I_AddProps ==
    << Call(<<"gdf_props">>, "add_geometric_properties",
            Dict([arg1 |-> Var("gdf"),
                  area_unit |-> LS("m2"),
                  length_unit |-> LS("m")])) >>

I_ViewProps ==
    << Call(<<>>, "view_vector_interactive",
            Dict([arg1 |-> Var("gdf_props"),
                  column |-> LS("area_m2"),
                  tiles |-> Var("test_raster_url")])) >>

(* I_Filter, were a building of exactly 50 m2 kept.                        *)
I_FilterKeepsFifty ==
    << Assign("gdf_filtered", FilterGt(Var("gdf_props"), "area_m2", 49)),
       Out(<<LS("Buildings after filtering (area > 50 m2): "),
             LenOf(Var("gdf_filtered"))>>),
       Call(<<>>, "view_vector_interactive",
            Dict([arg1 |-> Var("gdf_filtered"),
                  column |-> LS("area_m2"),
                  tiles |-> Var("test_raster_url")])) >>

I_Filter ==
    << Assign("gdf_filtered", FilterGt(Var("gdf_props"), "area_m2", 50)),
       Out(<<LS("Buildings after filtering (area > 50 m2): "),
             LenOf(Var("gdf_filtered"))>>),
       Call(<<>>, "view_vector_interactive",
            Dict([arg1 |-> Var("gdf_filtered"),
                  column |-> LS("area_m2"),
                  tiles |-> Var("test_raster_url")])) >>

I_SplitMap ==
    << Call(<<>>, "create_split_map",
            Dict([left_layer |-> Var("gdf_filtered"),
                  right_layer |-> Var("test_raster_url"),
                  left_args |->
                      Dict([style |-> Dict([color |-> LS("red"),
                                            fillOpacity |-> LF(3, 10)])]),
                  basemap |-> Var("test_raster_url")])) >>

InstanceCells ==
    << I_Setup, I_Urls, I_Download, I_RasterInfo, I_ViewTrain, I_ViewTest,
       I_Export, I_CreateModel, I_TrainingConfig, I_Train, I_Plot,
       I_DefinePaths, I_Inference, I_ViewRaster, I_Orthogonalize, I_AddProps,
       I_ViewProps, I_Filter, I_SplitMap >>

Cells(notebook) == IF notebook = "lidar" THEN LidarCells ELSE InstanceCells

----------------------------------------------------------------------------
(* Running the notebooks.                                                  *)

(* Files a previous run of the notebooks may have left behind.             *)
Leftovers ==
    {"las_vegas_train_naip_hag.tif", "buildings/unet_models/best_model.pth",
     "instance_segmentation_buildings/models",
     "instance_segmentation_buildings/models/best_model.pth"}

MetricsIdle ==
    /\ mpc = "idle"
    /\ A = {}
    /\ B = {}
    /\ conf = [tp |-> 0, fp |-> 0, fn |-> 0]
    /\ met = [k \in {} |-> <<0, 1>>]

Init ==
    /\ nb \in {"lidar", "instance"}
    /\ pc = 1
    /\ ip = 1
    /\ active = {}
    /\ finished = 0
    /\ env = [k \in {} |-> None]
    /\ disk \in {{}, Leftovers}
    /\ written = {}
    /\ log = <<>>
    /\ checked = {}
    /\ missing = {}
    /\ stdout = <<>>
    /\ halted = FALSE
    /\ MetricsIdle

Run_L_Urls == nb = "lidar" /\ pc = 1 /\ Step(L_Urls)
Run_L_Download == nb = "lidar" /\ pc = 2 /\ Step(L_Download)
Run_L_Environ == nb = "lidar" /\ pc = 3 /\ Step(L_Environ)
Run_L_ViewTrainAerial == nb = "lidar" /\ pc = 4 /\ Step(L_ViewTrainAerial)
Run_L_ViewTrainLiDAR == nb = "lidar" /\ pc = 5 /\ Step(L_ViewTrainLiDAR)
Run_L_StackTrain == nb = "lidar" /\ pc = 6 /\ Step(L_StackTrain)
Run_L_StackTest == nb = "lidar" /\ pc = 7 /\ Step(L_StackTest)
Run_L_Export == nb = "lidar" /\ pc = 8 /\ Step(L_Export)
Run_L_Train == nb = "lidar" /\ pc = 9 /\ Step(L_Train)
Run_L_Plot == nb = "lidar" /\ pc = 10 /\ Step(L_Plot)
Run_L_DefinePaths == nb = "lidar" /\ pc = 11 /\ Step(L_DefinePaths)
Run_L_Inference == nb = "lidar" /\ pc = 12 /\ Step(L_Inference)
Run_L_Orthogonalize == nb = "lidar" /\ pc = 13 /\ Step(L_Orthogonalize)
Run_L_AddProps == nb = "lidar" /\ pc = 14 /\ Step(L_AddProps)
Run_L_ViewRaster == nb = "lidar" /\ pc = 15 /\ Step(L_ViewRaster)
Run_L_ViewProps == nb = "lidar" /\ pc = 16 /\ Step(L_ViewProps)
Run_L_Filter == nb = "lidar" /\ pc = 17 /\ Step(L_Filter)
Run_L_ViewFiltered == nb = "lidar" /\ pc = 18 /\ Step(L_ViewFiltered)
Run_L_SplitMap == nb = "lidar" /\ pc = 19 /\ Step(L_SplitMap)

Run_I_Setup == nb = "instance" /\ pc = 1 /\ Step(I_Setup)
Run_I_Urls == nb = "instance" /\ pc = 2 /\ Step(I_Urls)
Run_I_Download == nb = "instance" /\ pc = 3 /\ Step(I_Download)
Run_I_RasterInfo == nb = "instance" /\ pc = 4 /\ Step(I_RasterInfo)
Run_I_ViewTrain == nb = "instance" /\ pc = 5 /\ Step(I_ViewTrain)
Run_I_ViewTest == nb = "instance" /\ pc = 6 /\ Step(I_ViewTest)
Run_I_Export == nb = "instance" /\ pc = 7 /\ Step(I_Export)
Run_I_CreateModel == nb = "instance" /\ pc = 8 /\ Step(I_CreateModel)
Run_I_TrainingConfig == nb = "instance" /\ pc = 9 /\ Step(I_TrainingConfig)
Run_I_Train == nb = "instance" /\ pc = 10 /\ Step(I_Train)
Run_I_Plot == nb = "instance" /\ pc = 11 /\ Step(I_Plot)
Run_I_DefinePaths == nb = "instance" /\ pc = 12 /\ Step(I_DefinePaths)
Run_I_Inference == nb = "instance" /\ pc = 13 /\ Step(I_Inference)
Run_I_ViewRaster == nb = "instance" /\ pc = 14 /\ Step(I_ViewRaster)
Run_I_Orthogonalize == nb = "instance" /\ pc = 15 /\ Step(I_Orthogonalize)
Run_I_AddProps == nb = "instance" /\ pc = 16 /\ Step(I_AddProps)
Run_I_ViewProps == nb = "instance" /\ pc = 17 /\ Step(I_ViewProps)
Run_I_Filter == nb = "instance" /\ pc = 18 /\ Step(I_Filter)
Run_I_SplitMap == nb = "instance" /\ pc = 19 /\ Step(I_SplitMap)

Next ==
    \/ Run_L_Urls \/ Run_L_Download \/ Run_L_Environ \/ Run_L_ViewTrainAerial
    \/ Run_L_ViewTrainLiDAR \/ Run_L_StackTrain \/ Run_L_StackTest
    \/ Run_L_Export \/ Run_L_Train \/ Run_L_Plot \/ Run_L_DefinePaths
    \/ Run_L_Inference \/ Run_L_Orthogonalize \/ Run_L_AddProps
    \/ Run_L_ViewRaster \/ Run_L_ViewProps \/ Run_L_Filter
    \/ Run_L_ViewFiltered \/ Run_L_SplitMap
    \/ Run_I_Setup \/ Run_I_Urls \/ Run_I_Download \/ Run_I_RasterInfo
    \/ Run_I_ViewTrain \/ Run_I_ViewTest \/ Run_I_Export \/ Run_I_CreateModel
    \/ Run_I_TrainingConfig \/ Run_I_Train \/ Run_I_Plot \/ Run_I_DefinePaths
    \/ Run_I_Inference \/ Run_I_ViewRaster \/ Run_I_Orthogonalize
    \/ Run_I_AddProps \/ Run_I_ViewProps \/ Run_I_Filter \/ Run_I_SplitMap

Spec == Init /\ [][Next]_vars

(* The instance-segmentation notebook alone, where the file at model_path  *)
(* may be absent when the existence check runs: the case the else branch   *)
(* of the check is written for.                                            *)
InitInstance == Init /\ nb = "instance"

ModelFileAbsent ==
    /\ nb = "instance"
    /\ pc = 12
    /\ ip = 1
    /\ ~halted
    /\ "instance_segmentation_buildings/models/best_model.pth" \in disk
    /\ disk' = disk \ {"instance_segmentation_buildings/models/best_model.pth"}
    /\ UNCHANGED <<nb, pc, ip, active, finished, env, written, log, checked,
                   missing, stdout, halted>>
    /\ UNCHANGED mvars

NextInstance ==
    \/ Run_I_Setup \/ Run_I_Urls \/ Run_I_Download \/ Run_I_RasterInfo
    \/ Run_I_ViewTrain \/ Run_I_ViewTest \/ Run_I_Export \/ Run_I_CreateModel
    \/ Run_I_TrainingConfig \/ Run_I_Train \/ Run_I_Plot \/ ModelFileAbsent
    \/ Run_I_DefinePaths \/ Run_I_Inference \/ Run_I_ViewRaster
    \/ Run_I_Orthogonalize \/ Run_I_AddProps \/ Run_I_ViewProps
    \/ Run_I_Filter \/ Run_I_SplitMap

SpecCheck == InitInstance /\ [][NextInstance]_vars

----------------------------------------------------------------------------
(* The IoU and Dice definitions at the end of the LiDAR notebook, on exact *)
(* rationals <<numerator, denominator>>.  A rational with denominator 0 is *)
(* undefined.                                                              *)

Pixels == 1..NumPixels

RatDefined(x) == x[2] # 0
RatEq(x, y) == x[1] * y[2] = y[1] * x[2]
RatLe(x, y) == x[1] * y[2] <= y[1] * x[2]
RatAdd(x, y) == <<x[1] * y[2] + y[1] * x[2], x[2] * y[2]>>
RatSub(x, y) == <<x[1] * y[2] - y[1] * x[2], x[2] * y[2]>>
RatMul(x, y) == <<x[1] * y[1], x[2] * y[2]>>
RatDiv(x, y) == <<x[1] * y[2], x[2] * y[1]>>

(* IoU = |A n B| / |A u B|                                                 *)
IoU(a, b) == <<Cardinality(a \cap b), Cardinality(a \cup b)>>

(* Dice, were its denominator the union.                                   *)
DiceOverUnion(a, b) == <<2 * Cardinality(a \cap b), Cardinality(a \cup b)>>

(* Dice = 2 |A n B| / (|A| + |B|)                                          *)
Dice(a, b) == <<2 * Cardinality(a \cap b), Cardinality(a) + Cardinality(b)>>

(* TP, FP, FN of a predicted region a against the ground truth b.          *)
Confusion(a, b) ==
    [tp |-> Cardinality(a \cap b),
     fp |-> Cardinality(a \ b),
     fn |-> Cardinality(b \ a)]

(* IoUCounts, were the false negatives left out.                           *)
IoUCountsNoFN(c) == <<c.tp, c.tp + c.fp>>

(* IoU = TP / (TP + FP + FN)                                               *)
IoUCounts(c) == <<c.tp, c.tp + c.fp + c.fn>>

(* DiceCounts, were the true positives counted once in the numerator.     *)
DiceCountsSingleTP(c) == <<c.tp, 2 * c.tp + c.fp + c.fn>>

(* Dice = 2 TP / (2 TP + FP + FN)                                          *)
DiceCounts(c) == <<2 * c.tp, 2 * c.tp + c.fp + c.fn>>

(* DiceFromIoU, were the other conversion used for it.                     *)
DiceFromIoUSwapped(x) == RatDiv(x, RatSub(<<2, 1>>, x))

(* Dice = 2 IoU / (1 + IoU)                                                *)
DiceFromIoU(x) == RatDiv(RatMul(<<2, 1>>, x), RatAdd(<<1, 1>>, x))

(* IoU = Dice / (2 - Dice)                                                 *)
IoUFromDice(x) == RatDiv(x, RatSub(<<2, 1>>, x))

NotebookIdle ==
    /\ nb = "lidar"
    /\ pc = 1
    /\ ip = 1
    /\ active = {}
    /\ finished = 0
    /\ env = [k \in {} |-> None]
    /\ disk = {}
    /\ written = {}
    /\ log = <<>>
    /\ checked = {}
    /\ missing = {}
    /\ stdout = <<>>
    /\ halted = FALSE

MInit ==
    /\ NotebookIdle
    /\ mpc = "masks"
    /\ A \in SUBSET Pixels
    /\ B \in SUBSET Pixels
    /\ conf = [tp |-> 0, fp |-> 0, fn |-> 0]
    /\ met = [k \in {} |-> <<0, 1>>]

(* The prediction is compared with the ground truth, pixel by pixel.       *)
MCount ==
    /\ mpc = "masks"
    /\ conf' = Confusion(A, B)
    /\ mpc' = "counted"
    /\ UNCHANGED <<A, B, met>>
    /\ UNCHANGED nbvars

(* The two metrics, by their set definitions and by their count formulas.  *)
MEvaluate ==
    /\ mpc = "counted"
    /\ met' = [iou |-> IoU(A, B), dice |-> Dice(A, B),
               iou_counts |-> IoUCounts(conf), dice_counts |-> DiceCounts(conf)]
    /\ mpc' = "evaluated"
    /\ UNCHANGED <<A, B, conf>>
    /\ UNCHANGED nbvars

(* Each metric is converted into the other.                                *)
MConvert ==
    /\ mpc = "evaluated"
    /\ met' = [k \in DOMAIN met \cup {"dice_from_iou", "iou_from_dice"} |->
                  IF k = "dice_from_iou" THEN DiceFromIoU(met.iou_counts)
                  ELSE IF k = "iou_from_dice" THEN IoUFromDice(met.dice_counts)
                  ELSE met[k]]
    /\ mpc' = "converted"
    /\ UNCHANGED <<A, B, conf>>
    /\ UNCHANGED nbvars

MNext == MCount \/ MEvaluate \/ MConvert

SpecMetrics == MInit /\ [][MNext]_vars

----------------------------------------------------------------------------
(* Properties of the notebook runs.                                        *)

TrainFns == {"train_segmentation_model", "train_instance_segmentation_model"}
InferFns == {"semantic_segmentation", "instance_segmentation"}

CallsOf(fns) == {i \in 1..Len(log) : log[i].fn \in fns}

(* Views of the vectorized results: the layer shown is a GeoDataFrame.     *)
ResultViews ==
    {i \in 1..Len(log) :
        \/ log[i].fn = "view_vector_interactive" /\ log[i].args.arg1.t = "gdf"
        \/ log[i].fn = "create_split_map" /\ log[i].args.left_layer.t = "gdf"}

(* Every call of the first set was made before every call of the second.   *)
Before(is, js) == \A i \in is, j \in js : i < j

(* Call i has returned.                                                    *)
Returned(i) == i < Len(log) \/ (active = {} /\ ~halted)

CheckBeforeInference ==
    \A i \in CallsOf(InferFns) : log[i].args.model_path.v \in checked

(* C2 as amended: the instance segmentation notebook tests the checkpoint  *)
(* for existence before instance_segmentation is called with it; the LiDAR *)
(* notebook never tests any path for existence.                            *)
CheckBeforeInstanceInference ==
    /\ nb = "instance" => CheckBeforeInference
    /\ nb = "lidar" => checked = {}

InstanceInferenceChecked ==
    /\ nb = "instance"
    /\ \E i \in CallsOf(InferFns) :
           /\ log[i].args.model_path.v = "instance_segmentation_buildings/models/best_model.pth"
           /\ log[i].args.model_path.v \in checked

(* The library calls of a notebook, in cell order.                         *)
CellCalls(stmts, k) ==
    LET cs == SelectSeq(stmts, LAMBDA s : s.kind = "call")
    IN  [i \in 1..Len(cs) |-> [cell |-> k, fn |-> cs[i].fn]]

RECURSIVE FlatCalls(_, _)
FlatCalls(cells, k) ==
    IF k > Len(cells) THEN <<>>
    ELSE CellCalls(cells[k], k) \o FlatCalls(cells, k + 1)

(* C3: at most one library call is in progress, it is the call made last,  *)
(* every earlier call has returned, and the calls are made in cell order.  *)
OneCallAtATime ==
    LET calls == FlatCalls(Cells(nb), 1)
    IN  /\ Cardinality(active) <= 1
        /\ Len(log) = finished + Cardinality(active)
        /\ \A c \in active : c = log[Len(log)]
        /\ Len(log) <= Len(calls)
        /\ \A i \in 1..Len(log) :
               log[i].fn = calls[i].fn /\ log[i].cell = calls[i].cell

TrainingInProgress ==
    /\ \E c \in active : c.fn = "train_instance_segmentation_model"
    /\ finished = Len(log) - 1
    /\ finished > 0
    /\ pc = 10

(* C4: the raster given to orthogonalize and the local raster given to     *)
(* view_raster are the output_path of the inference call made before; in   *)
(* the instance segmentation notebook the call returns a pair whose first  *)
(* component is that output_path and whose second is the elapsed time.     *)
ResultRasterIsInferenceOutput ==
    /\ \A j \in 1..Len(log) :
           (\/ log[j].fn = "orthogonalize"
            \/ log[j].fn = "view_raster" /\ IsLocalPath(log[j].args.arg1))
           => \E i \in CallsOf(InferFns) :
                  /\ i < j
                  /\ log[i].args.output_path = log[j].args.arg1
                  /\ log[j].args.arg1.v \in written
    /\ "result_path" \in DOMAIN env =>
           /\ nb = "instance"
           /\ \E i \in CallsOf(InferFns) :
                  log[i].args.output_path = env["result_path"]
           /\ env["inference_time"].t = "int"

ResultRasterUsed ==
    /\ nb = "instance"
    /\ "result_path" \in DOMAIN env
    /\ \E j \in CallsOf({"orthogonalize"}) :
           log[j].args.arg1.v =
               "instance_segmentation_buildings/output/instance_segmentation_result.tif"
    /\ \E j \in CallsOf({"view_raster"}) : IsLocalPath(log[j].args.arg1)

(* C5: the history file plotted and the checkpoint loaded at inference are *)
(* training_history.pth and best_model.pth under the output_dir given to   *)
(* the training call made before, and training has written both.           *)
TrainingOutputsAreRead ==
    /\ \A j \in CallsOf({"plot_performance_metrics"}) :
           \E i \in CallsOf(TrainFns) :
               /\ i < j
               /\ log[j].args.history_path.v =
                      log[i].args.output_dir.v \o "/training_history.pth"
               /\ log[j].args.history_path.v \in written
    /\ \A j \in CallsOf(InferFns) :
           \E i \in CallsOf(TrainFns) :
               /\ i < j
               /\ log[j].args.model_path.v =
                      log[i].args.output_dir.v \o "/best_model.pth"
               /\ log[j].args.model_path.v \in written

TrainingOutputsRead ==
    /\ CallsOf({"plot_performance_metrics"}) # {}
    /\ \E j \in CallsOf(InferFns) :
           /\ Returned(j)
           /\ log[j].args.model_path.v = "buildings/unet_models/best_model.pth"

(* C6: the images_dir and labels_dir given to training are the images and  *)
(* labels subdirectories of the out_folder given to the tile export made   *)
(* before, and the export has written both.                                *)
TilesAreTrainedOn ==
    \A j \in CallsOf(TrainFns) :
        \E i \in CallsOf({"export_geotiff_tiles"}) :
            /\ i < j
            /\ log[j].args.images_dir.v = log[i].args.out_folder.v \o "/images"
            /\ log[j].args.labels_dir.v = log[i].args.out_folder.v \o "/labels"
            /\ {log[j].args.images_dir.v, log[j].args.labels_dir.v} \subseteq written

TilesTrainedOn ==
    \E j \in CallsOf(TrainFns) :
        /\ Returned(j)
        /\ log[j].args.images_dir.v = "buildings/images"
        /\ log[j].args.labels_dir.v = "buildings/labels"

(* C10: the inference call is given the same num_channels and num_classes  *)
(* (in the LiDAR notebook also architecture and encoder_name) as the       *)
(* training call made before.                                              *)
ModelShape(notebook) ==
    IF notebook = "lidar"
    THEN {"num_channels", "num_classes", "architecture", "encoder_name"}
    ELSE {"num_channels", "num_classes"}

SameModelShape ==
    \A j \in CallsOf(InferFns) :
        \E i \in CallsOf(TrainFns) :
            /\ i < j
            /\ \A k \in ModelShape(nb) :
                   /\ k \in DOMAIN log[i].args
                   /\ k \in DOMAIN log[j].args
                   /\ log[i].args[k] = log[j].args[k]

InferenceAfterTraining ==
    /\ nb = "lidar"
    /\ \E j \in CallsOf(InferFns) :
           /\ Returned(j)
           /\ log[j].args.encoder_name.v = "resnet34"
           /\ log[j].args.num_channels.v = 5

----------------------------------------------------------------------------
(* Properties of the metrics.                                              *)

Evaluated == mpc \in {"evaluated", "converted"}
Zero == <<0, 1>>
One == <<1, 1>>

(* C7: with TP > 0, converting the IoU of the counts gives their Dice and  *)
(* converting the Dice of the counts gives their IoU, as exact rationals.  *)
ConversionsAgree ==
    mpc = "converted" /\ conf.tp > 0 =>
        /\ RatDefined(met.dice_from_iou) /\ RatDefined(met.dice_counts)
        /\ RatDefined(met.iou_from_dice) /\ RatDefined(met.iou_counts)
        /\ RatEq(met.dice_from_iou, met.dice_counts)
        /\ RatEq(met.iou_from_dice, met.iou_counts)

ConvertedPartialOverlap ==
    /\ mpc = "converted"
    /\ conf.tp > 0 /\ conf.fp > 0 /\ conf.fn > 0 /\ conf.fp # conf.fn

(* C8: for regions that are not both empty, with TP, FP, FN the sizes of   *)
(* the intersection and of the two differences, the set definitions of IoU *)
(* and Dice have the values of the count formulas.                         *)
SetsAgreeWithCounts ==
    Evaluated /\ A \cup B # {} =>
        /\ conf.tp = Cardinality(A \cap B)
        /\ conf.fp = Cardinality(A \ B)
        /\ conf.fn = Cardinality(B \ A)
        /\ RatDefined(met.iou) /\ RatDefined(met.iou_counts)
        /\ RatDefined(met.dice) /\ RatDefined(met.dice_counts)
        /\ RatEq(met.iou, met.iou_counts)
        /\ RatEq(met.dice, met.dice_counts)

EvaluatedBothWrong ==
    /\ mpc = "evaluated"
    /\ Cardinality(A \cap B) = 1
    /\ Cardinality(A \ B) = 2
    /\ Cardinality(B \ A) = 1

(* C9: where they are defined, IoU and Dice lie between 0 and 1, are 0     *)
(* exactly when the regions do not overlap and 1 exactly when they are     *)
(* equal.                                                                  *)
InUnitRange(x) ==
    /\ RatDefined(x)
    /\ RatLe(Zero, x) /\ RatLe(x, One)
    /\ RatEq(x, Zero) <=> A \cap B = {}
    /\ RatEq(x, One) <=> A = B

MetricsInUnitRange ==
    Evaluated /\ A \cup B # {} => InUnitRange(met.iou) /\ InUnitRange(met.dice)

EvaluatedExtremes ==
    /\ Evaluated
    /\ A = B /\ A = Pixels
    /\ RatEq(met.iou, One) /\ RatEq(met.dice, One)

----------------------------------------------------------------------------
(* Properties of the band stacking in the LiDAR notebook.                  *)

AerialRasters == {"las_vegas_train_naip.tif", "las_vegas_test_naip.tif"}
LiDARRasters == {"las_vegas_train_hag.tif", "las_vegas_test_hag.tif"}
TrainRasters == {"las_vegas_train_naip.tif", "las_vegas_train_hag.tif"}
TestRasters == {"las_vegas_test_naip.tif", "las_vegas_test_hag.tif"}

(* Call i stacks the aerial image and then the LiDAR raster of one split.  *)
StacksSplit(i, split) ==
    LET files == log[i].args.input_files.v
    IN  /\ Len(files) = 2
        /\ files[1].v \in AerialRasters \cap split
        /\ files[2].v \in LiDARRasters \cap split

(* C11: in the LiDAR notebook every stack_bands call stacks the aerial     *)
(* image first and the LiDAR raster second, and all of them are given the  *)
(* same dtype, the same resolution and overwrite=True; the raster tiled    *)
(* for training is the output of the call that stacked the training pair,  *)
(* the raster given to inference is the output of the call that stacked    *)
(* the test pair, and neither is a downloaded, unstacked raster.           *)
StackedRastersAreUsed ==
    nb = "lidar" =>
        /\ \A i \in CallsOf({"stack_bands"}) :
               /\ StacksSplit(i, TrainRasters) \/ StacksSplit(i, TestRasters)
               /\ log[i].args.overwrite = B_(TRUE)
               /\ \A j \in CallsOf({"stack_bands"}) :
                      /\ log[i].args.dtype = log[j].args.dtype
                      /\ log[i].args.resolution = log[j].args.resolution
                      /\ log[i].args.overwrite = log[j].args.overwrite
        /\ \A j \in CallsOf({"export_geotiff_tiles"}) :
               /\ log[j].args.in_raster.v \notin AerialRasters \cup LiDARRasters
               /\ \E i \in CallsOf({"stack_bands"}) :
                      /\ i < j
                      /\ StacksSplit(i, TrainRasters)
                      /\ log[i].args.output_file = log[j].args.in_raster
        /\ \A j \in CallsOf(InferFns) :
               /\ log[j].args.input_path.v \notin AerialRasters \cup LiDARRasters
               /\ \E i \in CallsOf({"stack_bands"}) :
                      /\ i < j
                      /\ StacksSplit(i, TestRasters)
                      /\ log[i].args.output_file = log[j].args.input_path

StackedRastersUsed ==
    /\ nb = "lidar"
    /\ Cardinality(CallsOf({"stack_bands"})) = 2
    /\ \E j \in CallsOf({"export_geotiff_tiles"}) :
           log[j].args.in_raster.v = "las_vegas_train_naip_hag.tif"
    /\ \E j \in CallsOf(InferFns) :
           log[j].args.input_path.v = "las_vegas_test_naip_hag.tif"

----------------------------------------------------------------------------
(* Properties of the model-existence check of the instance notebook.       *)

ModelPathText == "instance_segmentation_buildings/models/best_model.pth"
OutputPathText ==
    "instance_segmentation_buildings/output/instance_segmentation_result.tif"

(* What cell 12 leaves of the variables other than the output, as a        *)
(* function of their values before the step and of nothing on disk.        *)
EnvAfterCheckStep ==
    IF ip = 1 THEN Bind(env, "model_path", S(ModelPathText))
    ELSE IF ip = 2 THEN Bind(env, "output_path", S(OutputPathText))
    ELSE env

CheckStepIgnoresDisk ==
    /\ env' = EnvAfterCheckStep
    /\ <<pc', ip'>> = IF ip < 3 THEN <<12, ip + 1>> ELSE <<13, 1>>
    /\ checked' = IF ip = 3 THEN checked \cup {ModelPathText} ELSE checked
    /\ ip < 3 => stdout' = stdout
    /\ ip = 3 => Len(stdout') > Len(stdout)
    /\ UNCHANGED <<nb, active, finished, disk, written, log, missing, halted>>

(* The arguments of the inference call, the file present or not.           *)
InferenceArgs ==
    [input_path |-> S("naip_test.tif"),
     output_path |-> S(OutputPathText),
     model_path |-> S(ModelPathText),
     window_size |-> N(512),
     overlap |-> N(128),
     confidence_threshold |-> F(5, 10),
     batch_size |-> N(2),
     num_channels |-> N(3),
     num_classes |-> N(2),
     device |-> env["device"]]

InferenceIsCalled ==
    log' = Append(log, [cell |-> 13, fn |-> "instance_segmentation",
                        args |-> InferenceArgs])

(* C12: the model-existence check of the instance notebook changes only    *)
(* what is printed: every step of its cell leaves the variables, the call  *)
(* log, the disk and the run's standing as a function of the state before  *)
(* it that does not depend on whether the file at model_path exists, the   *)
(* next cell runs in both cases, and the inference call is made with the   *)
(* same arguments in both cases.                                           *)
CheckOnlyPrints ==
    /\ [][/\ (pc = 12 /\ ~ModelFileAbsent) => CheckStepIgnoresDisk
          /\ (pc = 13 /\ ip = 3 /\ active = {} /\ <<active', log'>> # <<active, log>>)
                 => InferenceIsCalled]_vars
    /\ [](\A i \in CallsOf({"instance_segmentation"}) :
              /\ log[i].args = InferenceArgs
              /\ env["model_path"] = S(ModelPathText)
              /\ env["output_path"] = S(OutputPathText))

InferenceWithoutModelFile ==
    /\ \E i \in 1..Len(stdout) :
           stdout[i] = <<S("Model not found at: "), S(ModelPathText)>>
    /\ ModelPathText \notin disk
    /\ CallsOf({"instance_segmentation"}) # {}

----------------------------------------------------------------------------
(* Properties of the small-building filter.                                *)

Occurrences(rows, row) == Cardinality({i \in DOMAIN rows : rows[i] = row})

FilterDone == {"gdf_props", "gdf_filtered"} \subseteq DOMAIN env

(* C13: once gdf_filtered is bound, every row of it is a row of gdf_props  *)
(* with area_m2 > 50, every row of gdf_props with area_m2 > 50 is in it    *)
(* as many times as in gdf_props, no row with area_m2 = 50 is in it, it    *)
(* has at most as many rows as gdf_props, and no step (the filter          *)
(* included) changes gdf_props once it is bound.                           *)
FilterKeepsAboveFifty ==
    /\ [](FilterDone =>
            LET props == env["gdf_props"].v
                filtered == env["gdf_filtered"].v
            IN  /\ \A i \in DOMAIN filtered :
                       /\ filtered[i].area_m2 > 50
                       /\ \E j \in DOMAIN props : props[j] = filtered[i]
                /\ \A j \in DOMAIN props :
                       props[j].area_m2 > 50 =>
                           Occurrences(filtered, props[j]) =
                               Occurrences(props, props[j])
                /\ \A i \in DOMAIN filtered : filtered[i].area_m2 # 50
                /\ Len(filtered) <= Len(props))
    /\ [][("gdf_props" \in DOMAIN env) =>
              /\ "gdf_props" \in DOMAIN env'
              /\ env'["gdf_props"] = env["gdf_props"]]_vars

FilteredFiftyAndFiftyOne ==
    /\ FilterDone
    /\ \E j \in DOMAIN env["gdf_props"].v : env["gdf_props"].v[j].area_m2 = 50
    /\ \E j \in DOMAIN env["gdf_props"].v : env["gdf_props"].v[j].area_m2 = 51
    /\ Len(env["gdf_filtered"].v) = 1

----------------------------------------------------------------------------
(* Dice against IoU on the same counts.                                    *)

(* C14: for counts TP, FP, FN with TP + FP + FN > 0, the Dice of the       *)
(* counts is at least their IoU, and the two are equal only when TP = 0 or *)
(* FP + FN = 0: on every partial overlap Dice is strictly greater.         *)
DiceAtLeastIoU ==
    Evaluated /\ conf.tp + conf.fp + conf.fn > 0 =>
        /\ RatDefined(met.iou_counts) /\ RatDefined(met.dice_counts)
        /\ RatLe(met.iou_counts, met.dice_counts)
        /\ RatEq(met.iou_counts, met.dice_counts) =>
               conf.tp = 0 \/ conf.fp + conf.fn = 0
        /\ conf.tp > 0 /\ conf.fp + conf.fn > 0 =>
               ~RatLe(met.dice_counts, met.iou_counts)

DiceStrictlyAboveIoU ==
    /\ Evaluated
    /\ conf.tp > 0 /\ conf.fp + conf.fn > 0
    /\ RatLe(met.iou_counts, met.dice_counts)
    /\ ~RatEq(met.iou_counts, met.dice_counts)

====
